---- MODULE Spec2Model ----
(***************************************************************************)
(* Retirement life-cycle model (singles and couples): the regime resolver  *)
(* (transitions.py), the taste-shock logsums (funs.py), the terminal       *)
(* period (last_period.py), the EGM step (egm.py) and the backward         *)
(* induction loop (Model.py).                                              *)
(*                                                                         *)
(* Money amounts are integers (grid units); survival and preference        *)
(* parameters enter only where the checked statements need them.           *)
(***************************************************************************)
EXTENDS Integers, Sequences, FiniteSets, TLC

VARIABLES
    par,        \* the parameter object (par.T, par.Tr, par.oap_age, ...)
    fn,         \* the pure function that has been applied ("none" before the call)
    args,       \* the arguments of the call
    ret,        \* what the call returned
    loop_t,     \* solve(): the period t of the backward loop
    loop_st,    \* solve(): the state index st of the inner loop
    pc,         \* solve(): "loop" while the loops run, "done" after them
    sol,        \* for each slice (t, st, d) of sol.c/sol.m/sol.v: how often it
                \* has been written (n) and by which period's step (by)
    post,       \* the (t, st) whose post-decision arrays sol.q, sol.v_plus_raw
                \* have been computed
    sol_m,      \* contents of sol.m for one period and choice, by state index
    sol_c,      \* contents of sol.c for the same slices
    single_sol, \* couple model: the nested single-household solution
                \* (self.Single.sol), by single-model period
    couple_sol, \* couple model: how often each slice (t, ad) of the couple's
                \* sol.c/sol.m/sol.v has been written
    used,       \* couple model: what the last couple-period step read and
                \* passed to the upper envelope
    st_pc,      \* concurrent states of one period: where the solve of each
                \* state is ("compute", "bellman", "done")
    scratch,    \* the post-decision arrays sol.q / sol.v_plus_raw (one array
                \* for all states): content and the states that wrote it
    st_out,     \* what the solve of each state stored in its solution slice
    rng,        \* the global generator np.random: seed and draws made so far
    sims        \* the shocks drawn by each simulate() so far

callVars == <<fn, args, ret>>

loopVars == <<loop_t, loop_st, pc, sol, post>>

gridVars == <<sol_m, sol_c>>

coupleVars == <<single_sol, couple_sol, used>>

\* the variables that the regime, logsum, grid and single-loop specifications
\* leave alone
concVars == <<st_pc, scratch, st_out>>

simVars == <<rng, sims>>

otherVars == <<coupleVars, concVars, simVars>>

vars == <<par, fn, args, ret, loop_t, loop_st, pc, sol, post, sol_m, sol_c,
          single_sol, couple_sol, used, st_pc, scratch, st_out, rng, sims>>

-----------------------------------------------------------------------------
(* Bounds of the model *)

\* longest horizon par.T that is explored
MaxT == 6
\* largest absolute age difference of a couple (par.AD = -MaxAd..MaxAd)
MaxAd == 2
\* the retirement ages are explored up to start_T + MaxAgeGap
MaxAgeGap == 5
\* choice-specific values V[d,i] are drawn from 0..MaxV
MaxV == 1
\* most columns (grid points) of a value matrix V
MaxCols == 2
\* longest horizon par.T for which the backward loop is run
MaxSolveT == 10
\* most points par.Na of the asset grid
MaxNa == 3
\* most points on the constraint, par.poc
MaxPoc == 1
\* largest a_max, in units of the grid floor
MaxAmax == 4
\* 1/gamma is drawn from 1..MaxInvGamma
MaxInvGamma == 3
\* raw consumption inv_marg_func(q) is drawn from 1..MaxC
MaxC == 3
\* longest horizon par.T of a couple model
MaxCT == 3
\* largest par.ad_min and par.ad_max of a couple model
MaxAdC == 1
\* raw consumption of a couple-period step is drawn from 1..MaxCRaw
MaxCRaw == 1
\* number of states of one period that are solved concurrently
MaxConc == 3
\* the post-decision marginal value q of a state is drawn from 1..MaxQ
MaxQ == 2
\* simulated periods par.simT and households par.simN
MaxSimT == 2
MaxSimN == 2
\* number of simulate() calls on one model
MaxSims == 3

-----------------------------------------------------------------------------
(* Parameters *)

\* par.start_T
start_T == 57

\* the threshold 1e-10 under which the taste-shock scale counts as zero;
\* par.sigma_eta is held in units of 1e-11
SigmaTol == 10

\* par.ST: the (elig, high_skilled) dummies of each state index st = 0..3
ST == << <<0, 0>>, <<0, 1>>, <<1, 0>>, <<1, 1>> >>

\* par.AD: the age differences, wife's age minus husband's
AD == (0 - MaxAd)..MaxAd

\* baseline parameter object
BasePar ==
    [ T        |-> 54,
      Tr       |-> 21,
      start_T  |-> start_T,
      oap_age  |-> 65,
      two_year |-> 62,
      erp_age  |-> 60,
      Na       |-> 150,
      poc      |-> 10,
      a_max    |-> 100,
      \* beta = 0.98, gamma = 0.08, rho = 0.96 are held by their reciprocals,
      \* rounded to integers: beta = 1/inv_beta, gamma = 1/inv_gamma,
      \* rho = 1/inv_rho
      inv_beta  |-> 1,
      inv_gamma |-> 12,
      inv_rho   |-> 1 ]

\* p with field f set to v (setattr(par, key, val))
With(p, f, v) ==
    [k \in DOMAIN p \cup {f} |-> IF k = f THEN v ELSE p[k]]

-----------------------------------------------------------------------------
(* Helpers *)

Range(s) == { s[i] : i \in 1..Len(s) }

\* the value of a name that no branch has bound (the return then raises
\* UnboundLocalError): no array
Unbound == << >>

-----------------------------------------------------------------------------
(* Amounts. Consumption, cash-on-hand and assets are rationals <<num, den>>   *)
(* with den > 0, in units of the grid floor; den = 0 is NaN, the content of  *)
(* an array entry that has been allocated and not written.                   *)

Amt(n) == <<n, 1>>

NaN == <<0, 0>>

IsNaN(x) == x[2] = 0

\* comparisons with NaN are false
Lt(x, y) == ~IsNaN(x) /\ ~IsNaN(y) /\ x[1] * y[2] < y[1] * x[2]

Le(x, y) == ~IsNaN(x) /\ ~IsNaN(y) /\ x[1] * y[2] <= y[1] * x[2]

Gt(x, y) == Lt(y, x)

Eq(x, y) == ~IsNaN(x) /\ ~IsNaN(y) /\ x[1] * y[2] = y[1] * x[2]

\* np.nan*np.zeros(n)
nan_array(n) == [i \in 1..n |-> NaN]

\* the smallest grid point 1e-6, the unit of the amounts
GridLo == 1

\* np.linspace(lo, hi, n), n >= 2
linspace(lo, hi, n) ==
    [i \in 1..n |-> <<lo * (n - 1) + (i - 1) * (hi - lo), n - 1>>]

RECURSIVE Pow(_, _)
Pow(b, e) == IF e = 0 THEN 1 ELSE b * Pow(b, e - 1)

\* par.states: the (male, elig, high_skilled, children) dummies of each state
\* index, list(itertools.product([0, 1], repeat=4))
states ==
    [i \in 1..16 |-> << (i - 1) \div 8, ((i - 1) \div 4) % 2,
                        ((i - 1) \div 2) % 2, (i - 1) % 2 >>]

\* the slices (t, st, d) of the solution arrays
Slices(p) == (0..(p.T - 1)) \X (0..(Len(states) - 1)) \X {0, 1}

\* the values the variables of solve() have while another part is exercised
IdleLoop ==
    /\ loop_t = 0
    /\ loop_st = 0
    /\ pc = "idle"
    /\ sol = << >>
    /\ post = {}

IdleGrid ==
    /\ sol_m = << >>
    /\ sol_c = << >>

IdleCouple ==
    /\ single_sol = << >>
    /\ couple_sol = << >>
    /\ used = << >>

IdleConc ==
    /\ st_pc = << >>
    /\ scratch = << >>
    /\ st_out = << >>

IdleSim ==
    /\ rng = << >>
    /\ sims = << >>

IdleOther == IdleCouple /\ IdleConc /\ IdleSim

-----------------------------------------------------------------------------
(* Regime resolver: transitions.py *)

age(t, p) == t + p.start_T

inv_age(a, p) == a - p.start_T

state_translate(st, ind, p) ==
    LET states_st == ST[st + 1] IN
    IF ind = "elig"
    THEN IF states_st[1] = 1 THEN 1 ELSE 0
    ELSE IF states_st[2] = 1 THEN 1 ELSE 0

\* mutant: the eligibility test is dropped
ra_look_up_no_elig(t, st, ra, d, p) ==
    IF d = 0
    THEN IF t >= inv_age(p.oap_age, p) - 1 THEN 0 ELSE ra
    ELSE IF t + 1 >= inv_age(p.two_year, p) THEN 0
         ELSE IF t + 1 >= inv_age(p.erp_age, p) THEN 1
         ELSE 2

\* mutant: the working branch compares t, not t+1, with the two-year-rule age
ra_look_up_late(t, st, ra, d, p) ==
    IF state_translate(st, "elig", p) = 0 THEN 2
    ELSE IF d = 0
    THEN IF t >= inv_age(p.oap_age, p) - 1 THEN 0 ELSE ra
    ELSE IF t >= inv_age(p.two_year, p) THEN 0
         ELSE IF t + 1 >= inv_age(p.erp_age, p) THEN 1
         ELSE 2

ra_look_up(t, st, ra, d, p) ==
    IF state_translate(st, "elig", p) = 0 THEN 2
    ELSE IF d = 0
    THEN IF t >= inv_age(p.oap_age, p) - 1 THEN 0 ELSE ra
    ELSE IF t + 1 >= inv_age(p.two_year, p) THEN 0
         ELSE IF t + 1 >= inv_age(p.erp_age, p) THEN 1
         ELSE 2

\* mutant: the forced-retirement test is made on t instead of t+1
d_plus_off_by_one(t, d_t, p) ==
    IF d_t = 0 THEN <<0>>
    ELSE IF t = p.Tr - 1 THEN <<0>>
    ELSE IF t < p.Tr - 1 THEN <<0, 1>>
    ELSE Unbound

\* mutant: a retired single may return to work
d_plus_reentry(t, d_t, p) ==
    IF t + 1 = p.Tr - 1 THEN <<0>>
    ELSE IF t + 1 < p.Tr - 1 THEN <<0, 1>>
    ELSE IF d_t = 0 THEN <<0>>
    ELSE Unbound

d_plus(t, d_t, p) ==
    IF d_t = 0 THEN <<0>>
    ELSE IF t + 1 = p.Tr - 1 THEN <<0>>
    ELSE IF t + 1 < p.Tr - 1 THEN <<0, 1>>
    ELSE Unbound

\* mutant: the forced-retirement tests use >= as couple_index does
d_plus_c_geq(t, ad, d, p) ==
    CASE d = 0 -> <<0>>
      [] d = 1 -> IF t + 1 + ad >= p.Tr - 1 THEN <<0, 0>> ELSE <<0, 1>>
      [] d = 2 -> IF t + 1 >= p.Tr - 1 THEN <<0, 0>> ELSE <<0, 2>>
      [] d = 3 -> IF ad = 0 /\ t + 1 >= p.Tr - 1 THEN <<0>>
                  ELSE IF ad < 0 /\ t + 1 >= p.Tr - 1 THEN <<0, 1>>
                  ELSE IF ad > 0 /\ t + 1 + ad >= p.Tr - 1 THEN <<0, 2>>
                  ELSE <<0, 1, 2, 3>>

\* mutant: the forced-retirement tests are made on t instead of t+1
d_plus_c_off_by_one(t, ad, d, p) ==
    CASE d = 0 -> <<0>>
      [] d = 1 -> IF t + ad = p.Tr - 1 THEN <<0, 0>> ELSE <<0, 1>>
      [] d = 2 -> IF t = p.Tr - 1 THEN <<0, 0>> ELSE <<0, 2>>
      [] d = 3 -> IF ad = 0 /\ t = p.Tr - 1 THEN <<0>>
                  ELSE IF ad < 0 /\ t = p.Tr - 1 THEN <<0, 1>>
                  ELSE IF ad > 0 /\ t + ad = p.Tr - 1 THEN <<0, 2>>
                  ELSE <<0, 1, 2, 3>>

d_plus_c(t, ad, d, p) ==
    CASE d = 0 -> <<0>>
      [] d = 1 -> IF t + 1 + ad = p.Tr - 1 THEN <<0, 0>> ELSE <<0, 1>>
      [] d = 2 -> IF t + 1 = p.Tr - 1 THEN <<0, 0>> ELSE <<0, 2>>
      [] d = 3 -> IF ad = 0 /\ t + 1 = p.Tr - 1 THEN <<0>>
                  ELSE IF ad < 0 /\ t + 1 = p.Tr - 1 THEN <<0, 1>>
                  ELSE IF ad > 0 /\ t + 1 + ad = p.Tr - 1 THEN <<0, 2>>
                  ELSE <<0, 1, 2, 3>>

couple_index(d, t, ad, p) ==
    CASE d = 0 -> <<0, 0>>
      [] d = 1 -> IF t + 1 + ad >= p.Tr - 1 THEN <<0, 0>> ELSE <<0, 1>>
      [] d = 2 -> IF t + 1 >= p.Tr - 1 THEN <<0, 0>> ELSE <<1, 0>>
      [] d = 3 -> IF ad = 0 /\ t + 1 >= p.Tr - 1 THEN <<0, 0>>
                  ELSE IF ad < 0 /\ t + 1 >= p.Tr - 1 THEN <<0, 1>>
                  ELSE IF ad > 0 /\ t + 1 + ad >= p.Tr - 1 THEN <<1, 0>>
                  ELSE <<1, 1>>

-----------------------------------------------------------------------------
(* SpecChoice: the choice-set functions applied to every (t, ad, d) *)

NoArgs == [t |-> 0, ad |-> 0, d |-> 0, st |-> 0, ra |-> 0]

InitChoice ==
    /\ \E T \in 2..MaxT, Tr \in 2..MaxT :
          /\ Tr <= T
          /\ par = [BasePar EXCEPT !.T = T, !.Tr = Tr]
    /\ \E t \in 0..(MaxT - 1), ad \in AD, d \in 0..3 :
          /\ t <= par.T - 1
          /\ args = [NoArgs EXCEPT !.t = t, !.ad = ad, !.d = d]
    /\ fn = "none"
    /\ ret = << >>
    /\ IdleLoop
    /\ IdleGrid
    /\ IdleOther

Call_d_plus ==
    /\ fn = "none"
    /\ args.d \in {0, 1}
    /\ fn' = "d_plus"
    /\ ret' = d_plus(args.t, args.d, par)
    /\ UNCHANGED <<par, args, loopVars, gridVars, otherVars>>

Call_d_plus_c ==
    /\ fn = "none"
    /\ fn' = "d_plus_c"
    /\ ret' = d_plus_c(args.t, args.ad, args.d, par)
    /\ UNCHANGED <<par, args, loopVars, gridVars, otherVars>>

Call_couple_index ==
    /\ fn = "none"
    /\ fn' = "couple_index"
    /\ ret' = couple_index(args.d, args.t, args.ad, par)
    /\ UNCHANGED <<par, args, loopVars, gridVars, otherVars>>

NextChoice == Call_d_plus \/ Call_d_plus_c \/ Call_couple_index

SpecChoice == InitChoice /\ [][NextChoice]_vars

-----------------------------------------------------------------------------
(* SpecRa: ra_look_up applied to every (t, st, ra, d) and every setting of  *)
(* the three retirement ages                                                *)

InitRa ==
    /\ \E e \in 0..MaxAgeGap, y \in 0..MaxAgeGap, o \in 0..MaxAgeGap :
          par = [BasePar EXCEPT !.T = MaxT, !.Tr = MaxT,
                                !.erp_age = start_T + e,
                                !.two_year = start_T + y,
                                !.oap_age = start_T + o]
    /\ \E t \in 0..(MaxT - 1), st \in 0..3, ra \in 0..2, d \in 0..1 :
          args = [NoArgs EXCEPT !.t = t, !.st = st, !.ra = ra, !.d = d]
    /\ fn = "none"
    /\ ret = << >>
    /\ IdleLoop
    /\ IdleGrid
    /\ IdleOther

Call_ra_look_up ==
    /\ fn = "none"
    /\ fn' = "ra_look_up"
    /\ ret' = <<ra_look_up(args.t, args.st, args.ra, args.d, par)>>
    /\ UNCHANGED <<par, args, loopVars, gridVars, otherVars>>

NextRa == Call_ra_look_up

SpecRa == InitRa /\ [][NextRa]_vars

-----------------------------------------------------------------------------
(* SpecPath: a household followed forward in time.  Each period's choice is   *)
(* one of the choices that d_plus (a single) or d_plus_c (a couple) returns   *)
(* for the choice of the period before.  args holds the period, the age       *)
(* difference and the choice of the current period, loop_t the period the     *)
(* path began in, and ret the choices made since then.                        *)

\* the joint choices in which the husband works, and those in which the wife
\* works (1: only the wife, 2: only the husband, 3: both)
works_h(d) == d \in {2, 3}

works_w(d) == d \in {1, 3}

\* a choice a household can have made in period t: nobody works in or after
\* the own forced-retirement period
feasible_at(kind, t, ad, d, p) ==
    IF kind = "single"
    THEN d \in {0, 1} /\ (d = 1 => t < p.Tr - 1)
    ELSE /\ d \in 0..3
         /\ works_h(d) => t < p.Tr - 1
         /\ works_w(d) => t + ad < p.Tr - 1

InitPath ==
    /\ \E T \in 2..MaxT, Tr \in 2..MaxT :
          /\ Tr <= T
          /\ par = [BasePar EXCEPT !.T = T, !.Tr = Tr]
    /\ pc \in {"single", "couple"}
    /\ \E t \in 0..(MaxT - 1), ad \in AD, d \in 0..3 :
          /\ t <= par.T - 1
          /\ pc = "single" => ad = 0
          /\ feasible_at(pc, t, ad, d, par)
          /\ args = [NoArgs EXCEPT !.t = t, !.ad = ad, !.d = d]
          /\ loop_t = t
          /\ ret = <<d>>
    /\ fn = "none"
    /\ loop_st = 0
    /\ sol = << >>
    /\ post = {}
    /\ IdleGrid
    /\ IdleOther

\* the choice of period t+1 is args' .d
Move(d_next) ==
    /\ args' = [args EXCEPT !.t = @ + 1, !.d = d_next]
    /\ ret' = Append(ret, d_next)
    /\ UNCHANGED <<par, fn, loop_t, loop_st, pc, sol, post, gridVars, otherVars>>

StepSingle ==
    /\ pc = "single"
    /\ args.t <= par.T - 2
    /\ \E d_next \in Range(d_plus(args.t, args.d, par)) : Move(d_next)

StepCouple ==
    /\ pc = "couple"
    /\ args.t <= par.T - 2
    /\ \E d_next \in Range(d_plus_c(args.t, args.ad, args.d, par)) : Move(d_next)

NextPath == StepSingle \/ StepCouple

SpecPath == InitPath /\ [][NextPath]_vars

-----------------------------------------------------------------------------
(* SpecBucket: the retirement-status bucket of a single followed forward in  *)
(* time.  The choices follow d_plus; the bucket of period t+1 is what compute *)
(* looks up for it, ra_look_up(t+1, st, ra, d), from the bucket ra and the    *)
(* choice d of period t.  ret holds the buckets of the periods so far.        *)

\* compute: ra_plus = transitions.ra_look_up(t+1, st, ra, d, par)
ra_plus(t, st, ra, d, p) == ra_look_up(t + 1, st, ra, d, p)

InitBucket ==
    /\ \E e \in 0..MaxAgeGap, y \in 0..MaxAgeGap, o \in 0..MaxAgeGap,
          Tr \in 2..(MaxAgeGap + 2) :
          /\ e <= y
          /\ y <= o
          /\ par = [BasePar EXCEPT !.T = MaxAgeGap + 2, !.Tr = Tr,
                                   !.erp_age = start_T + e,
                                   !.two_year = start_T + y,
                                   !.oap_age = start_T + o]
    \* period 0 follows a period in which the bucket was ra and the choice d
    /\ \E st \in 0..3, ra \in 0..2, d \in 0..1 :
          \E d_0 \in Range(d_plus(0 - 1, d, par)) :
             /\ args = [NoArgs EXCEPT !.t = 0, !.st = st, !.d = d_0,
                                      !.ra = ra_plus(0 - 1, st, ra, d, par)]
             /\ ret = <<ra_plus(0 - 1, st, ra, d, par)>>
    /\ fn = "none"
    /\ IdleLoop
    /\ IdleGrid
    /\ IdleOther

StepBucket ==
    /\ args.t <= par.T - 2
    /\ \E d_next \in Range(d_plus(args.t, args.d, par)) :
          LET ra_next == ra_plus(args.t, args.st, args.ra, args.d, par)
          IN /\ args' = [args EXCEPT !.t = @ + 1, !.d = d_next, !.ra = ra_next]
             /\ ret' = Append(ret, ra_next)
    /\ UNCHANGED <<par, fn, loopVars, gridVars, otherVars>>

NextBucket == StepBucket

SpecBucket == InitBucket /\ [][NextBucket]_vars

-----------------------------------------------------------------------------
(* Taste-shock logsums: funs.py *)

Max2(x, y) == IF x >= y THEN x ELSE y

abs(x) == IF x >= 0 THEN x ELSE 0 - x

\* np.zeros(V.shape)
zeros(rows, cols) == [d \in 1..rows |-> [i \in 1..cols |-> 0]]

\* The branch for a positive scale computes exp and log; of it only the
\* fact that it was taken is kept.
Smooth == [branch |-> "smooth", logsum |-> << >>, prob |-> << >>]

\* mutant: the arg-max test is strict
logsum2_strict(V, p) ==
    LET cols == Len(V[1])
        mxm == [i \in 1..cols |-> Max2(V[1][i], V[2][i])]
    IN IF abs(p.sigma_eta) > SigmaTol THEN Smooth
       ELSE [branch |-> "hard",
             logsum |-> mxm,
             prob   |-> [d \in 1..2 |-> [i \in 1..cols |->
                           IF V[1][i] > mxm[i]
                           THEN (IF d = 1 THEN 1 ELSE 0)
                           ELSE (IF d = 2 THEN 1 ELSE 0)]]]

logsum2(V, p) ==
    LET cols == Len(V[1])
        mxm == [i \in 1..cols |-> Max2(V[1][i], V[2][i])]
    IN IF abs(p.sigma_eta) > SigmaTol THEN Smooth
       ELSE [branch |-> "hard",
             logsum |-> mxm,
             prob   |-> [d \in 1..2 |-> [i \in 1..cols |->
                           IF V[1][i] >= mxm[i]
                           THEN (IF d = 1 THEN 1 ELSE 0)
                           ELSE (IF d = 2 THEN 1 ELSE 0)]]]

\* The last branch of the arg-max cascade is the bare expression prob[3,i]:
\* it assigns nothing, and column i of prob stays all zero.
logsum4(V, p) ==
    LET cols == Len(V[1])
        mxm == [i \in 1..cols |->
                  Max2(Max2(V[1][i], V[2][i]), Max2(V[3][i], V[4][i]))]
    IN IF abs(p.sigma_eta) > SigmaTol THEN Smooth
       ELSE [branch |-> "hard",
             logsum |-> mxm,
             prob   |-> [d \in 1..4 |-> [i \in 1..cols |->
                           IF V[1][i] >= mxm[i] THEN (IF d = 1 THEN 1 ELSE 0)
                           ELSE IF V[2][i] >= mxm[i] THEN (IF d = 2 THEN 1 ELSE 0)
                           ELSE IF V[3][i] >= mxm[i] THEN (IF d = 3 THEN 1 ELSE 0)
                           ELSE zeros(4, cols)[d][i]]]]

\* shocks_GH: how the interpolated values of the choices d_plus of the next
\* period are combined at a quadrature node.  The branch is taken on
\* len(d_plus); with a length other than 1, 2 or 4 nothing is accumulated.
shocks_GH_branch(dp) ==
    IF Len(dp) = 1 THEN "no taste shocks"
    ELSE IF Len(dp) = 2 THEN "logsum2"
    ELSE IF Len(dp) = 4 THEN "logsum4"
    ELSE "none"

-----------------------------------------------------------------------------
(* SpecLogsum: logsum2 and logsum4 applied to every small value matrix, for  *)
(* scales at, inside and outside the zero threshold                         *)

SigmaSet == {0 - SigmaTol - 1, 0, SigmaTol, SigmaTol + 1}

InitLogsum ==
    /\ \E s \in SigmaSet : par = With(BasePar, "sigma_eta", s)
    /\ \E rows \in {2, 4}, cols \in 1..MaxCols :
          \E V \in [1..rows -> [1..cols -> 0..MaxV]] : args = [V |-> V]
    /\ fn = "none"
    /\ ret = << >>
    /\ IdleLoop
    /\ IdleGrid
    /\ IdleOther

Call_logsum2 ==
    /\ fn = "none"
    /\ Len(args.V) = 2
    /\ fn' = "logsum2"
    /\ ret' = logsum2(args.V, par)
    /\ UNCHANGED <<par, args, loopVars, gridVars, otherVars>>

Call_logsum4 ==
    /\ fn = "none"
    /\ Len(args.V) = 4
    /\ fn' = "logsum4"
    /\ ret' = logsum4(args.V, par)
    /\ UNCHANGED <<par, args, loopVars, gridVars, otherVars>>

NextLogsum == Call_logsum2 \/ Call_logsum4

SpecLogsum == InitLogsum /\ [][NextLogsum]_vars

-----------------------------------------------------------------------------
(* Terminal period: last_period.py *)

\* the unconstrained optimum (par.beta*par.gamma)**(-1/par.rho)
cons(p) == Amt(Pow(p.inv_beta * p.inv_gamma, p.inv_rho))

\* mutant: the test m[i] > cons is turned round
last_period_c_flipped(old_c, p) ==
    [i \in 1..Len(old_c) |->
        IF i <= p.poc THEN old_c[i]
        ELSE LET m_i == linspace(GridLo, p.a_max, p.Na)[i - p.poc]
             IN IF Lt(m_i, cons(p)) THEN cons(p) ELSE m_i]

\* sol.m[t,poc:,0] after last_period.solve: the first poc points are left as
\* they were
last_period_m(old_m, p) ==
    [i \in 1..Len(old_m) |->
        IF i <= p.poc THEN old_m[i]
        ELSE linspace(GridLo, p.a_max, p.Na)[i - p.poc]]

\* sol.c[t,poc:,0] after last_period.solve
last_period_c(old_c, p) ==
    [i \in 1..Len(old_c) |->
        IF i <= p.poc THEN old_c[i]
        ELSE LET m_i == linspace(GridLo, p.a_max, p.Na)[i - p.poc]
             IN IF Gt(m_i, cons(p)) THEN cons(p) ELSE m_i]

-----------------------------------------------------------------------------
(* Backward induction: RetirementModelClass.solve, Model.py *)

\* index of the eligibility dummy, par.var['elig']
var_elig == 1

\* the ages that select the old-age-pension and early-retirement periods
oap_period_age == 65

erp_period_lo == 59

erp_period_hi == 64

\* mutant: every state counts as eligible
elig_state_always(s) == TRUE

elig_state(s) == states[s + 1][var_elig + 1] = 1

\* the body of the loops has called f for (loop_t, loop_st)
Called(f) ==
    /\ fn' = f
    /\ args' = [t |-> loop_t, st |-> loop_st]

\* the slices of (t, st) with a choice in D have been written once more, by
\* the step of period by
Store(solv, tt, s, D, by) ==
    [x \in DOMAIN solv |->
        IF x[1] = tt /\ x[2] = s /\ x[3] \in D
        THEN [n |-> solv[x].n + 1, by |-> by]
        ELSE solv[x]]

\* post_decision.compute for choice d of (t, st, ra): the slices of the
\* solution arrays it interpolates in, period t+1, bucket ra_plus and each
\* choice of d_plus, as (t+1, st, ra_plus, d_next)
compute_reads(t, s, ra, d, p) ==
    { <<t + 1, s, ra_look_up(t + 1, s, ra, d, p), d_next>> :
         d_next \in Range(d_plus(t, d, p)) }

\* mutant: the state loop stops one state short
Advance_short(tt, s, p) ==
    IF s + 2 < Len(states) THEN <<tt, s + 1, "loop">>
    ELSE IF tt > 0 THEN <<tt - 1, 0, "loop">>
    ELSE <<tt, s, "done">>

\* for t in reversed(range(par.T)): for st in range(len(par.states)):
\* the position after the body has run for (tt, s)
Advance(tt, s, p) ==
    IF s + 1 < Len(states) THEN <<tt, s + 1, "loop">>
    ELSE IF tt > 0 THEN <<tt - 1, 0, "loop">>
    ELSE <<tt, s, "done">>

Step ==
    /\ loop_t' = Advance(loop_t, loop_st, par)[1]
    /\ loop_st' = Advance(loop_t, loop_st, par)[2]
    /\ pc' = Advance(loop_t, loop_st, par)[3]

\* _solve_prep followed by the start of the loops
Init ==
    /\ \E T \in 2..MaxSolveT, Tr \in 2..MaxSolveT, g \in 1..MaxInvGamma :
          /\ Tr <= T
          /\ par = [BasePar EXCEPT !.T = T, !.Tr = Tr, !.Na = MaxNa,
                                   !.poc = MaxPoc, !.a_max = MaxAmax,
                                   !.inv_gamma = g]
    /\ loop_t = par.T - 1
    /\ loop_st = 0
    /\ pc = "loop"
    /\ sol = [x \in Slices(par) |-> [n |-> 0, by |-> 0 - 1]]
    /\ post = {}
    /\ sol_m = [s \in 1..Len(states) |-> nan_array(par.Na + par.poc)]
    /\ sol_c = [s \in 1..Len(states) |-> nan_array(par.Na + par.poc)]
    /\ fn = "none"
    /\ args = NoArgs
    /\ ret = << >>
    /\ IdleOther

\* i. last period: last_period.solve writes the retired slice of period T-1
LastPeriod ==
    /\ pc = "loop"
    /\ loop_t = par.T - 1
    /\ sol' = Store(sol, loop_t, loop_st, {0}, loop_t)
    /\ sol_m' = [sol_m EXCEPT ![loop_st + 1] = last_period_m(@, par)]
    /\ sol_c' = [sol_c EXCEPT ![loop_st + 1] = last_period_c(@, par)]
    /\ Called("last_period.solve")
    /\ Step
    /\ UNCHANGED <<par, post, ret, otherVars>>

\* ii. forced to retire: compute_retired, then solve_bellman_retired
ForcedRetirement ==
    /\ pc = "loop"
    /\ loop_t # par.T - 1
    /\ loop_t + 1 >= par.Tr - 1
    /\ post' = post \cup {<<loop_t, loop_st>>}
    /\ sol' = Store(sol, loop_t, loop_st, {0}, loop_t)
    /\ Called("egm.solve_bellman_retired")
    /\ Step
    /\ UNCHANGED <<par, gridVars, ret, otherVars>>

\* iii. old-age-pension period: post_and_egm
OapPeriod ==
    /\ pc = "loop"
    /\ loop_t # par.T - 1
    /\ ~(loop_t + 1 >= par.Tr - 1)
    /\ age(loop_t + 1, par) >= oap_period_age
    /\ post' = post \cup {<<loop_t, loop_st>>}
    /\ sol' = Store(sol, loop_t, loop_st, {0, 1}, loop_t)
    /\ Called("egm.post_and_egm [0,0,0]")
    /\ Step
    /\ UNCHANGED <<par, gridVars, ret, otherVars>>

\* iv. early-retirement period of an eligible state: recalculate
ErpPeriod ==
    /\ pc = "loop"
    /\ loop_t # par.T - 1
    /\ ~(loop_t + 1 >= par.Tr - 1)
    /\ ~(age(loop_t + 1, par) >= oap_period_age)
    /\ erp_period_lo <= age(loop_t + 1, par)
    /\ age(loop_t + 1, par) <= erp_period_hi
    /\ elig_state(loop_st)
    /\ post' = post \cup {<<loop_t, loop_st>>}
    /\ sol' = Store(sol, loop_t, loop_st, {0, 1}, loop_t)
    /\ Called("egm.recalculate")
    /\ Step
    /\ UNCHANGED <<par, gridVars, ret, otherVars>>

\* v. before the early-retirement periods: post_and_egm
PreErpPeriod ==
    /\ pc = "loop"
    /\ loop_t # par.T - 1
    /\ ~(loop_t + 1 >= par.Tr - 1)
    /\ ~(age(loop_t + 1, par) >= oap_period_age)
    /\ ~(/\ erp_period_lo <= age(loop_t + 1, par)
         /\ age(loop_t + 1, par) <= erp_period_hi
         /\ elig_state(loop_st))
    /\ post' = post \cup {<<loop_t, loop_st>>}
    /\ sol' = Store(sol, loop_t, loop_st, {0, 1}, loop_t)
    /\ Called("egm.post_and_egm [0,2,0]")
    /\ Step
    /\ UNCHANGED <<par, gridVars, ret, otherVars>>

Next ==
    \/ LastPeriod
    \/ ForcedRetirement
    \/ OapPeriod
    \/ ErpPeriod
    \/ PreErpPeriod

Spec == Init /\ [][Next]_vars

-----------------------------------------------------------------------------
(* EGM step: egm.solve_bellman, for one (t, st, ra) and one choice d *)

\* the strictly increasing grids of n points from GridLo to hi
\* (misc.nonlinspace(par.tol, par.a_max, par.Na, par.a_phi))
Grids(n, hi) ==
    { g \in [1..n -> GridLo..hi] :
        /\ g[1] = GridLo
        /\ g[n] = hi
        /\ \A i \in 1..(n - 1) : g[i] < g[i + 1] }

\* c_low + c_slope*(m - m_low), with c_slope = (c_high - c_low)/(m_high - m_low)
c_guess(m_low, m_high, c_low, c_high, m) ==
    LET D == m_high - m_low
        N == c_low * D + (c_high - c_low) * (m - m_low)
    IN IF D > 0 THEN <<N, D>> ELSE <<0 - N, 0 - D>>

\* The consumption levels the upper envelope compares at the common grid
\* point m: all of m when the constraint binds (m <= m_vec[0]), and the
\* interpolation on every segment of the raw solution that holds m, or the
\* extrapolation of the last segment above m_vec[Na-1].  A segment of zero
\* width gives no number.
Candidates(a, m_vec, c_vec, m) ==
    (IF m <= m_vec[1] THEN {Amt(m)} ELSE {})
    \cup
    { c_guess(m_vec[ia], m_vec[ia + 1], c_vec[ia], c_vec[ia + 1], m) :
        ia \in { j \in 1..(Len(a) - 1) :
                   /\ a[j] <= a[j + 1]
                   /\ m_vec[j] # m_vec[j + 1]
                   /\ \/ (m >= m_vec[j] /\ m <= m_vec[j + 1])
                      \/ (j = Len(a) - 1 /\ m > m_vec[Len(a)]) } }

\* The upper envelope keeps, at each point of the common grid, the candidate
\* with the highest value-of-choice; which one that is depends on the utility
\* function, so every candidate is a possible outcome.  c_ast starts at 0 and
\* stays 0 where there is no candidate.
envelope(a, m_vec, c_vec, grid_m) ==
    LET cand(i) == LET C == Candidates(a, m_vec, c_vec, grid_m[i])
                   IN IF C = {} THEN {Amt(0)} ELSE C
    IN { f \in [1..Len(grid_m) -> UNION { cand(i) : i \in 1..Len(grid_m) }] :
           \A i \in 1..Len(grid_m) : f[i] \in cand(i) }

\* mutant: the endogenous grid is a minus, not plus, raw consumption
solve_bellman_minus(a, c_raw) ==
    LET m_raw == [i \in 1..Len(a) |-> a[i] - c_raw[i]]
    IN { [m |-> [i \in 1..Len(a) |-> Amt(a[i])], c |-> c_d] :
           c_d \in envelope(a, m_raw, c_raw, a) }

\* mutant: the raw endogenous grid is stored as the cash-on-hand grid
solve_bellman_raw_m(a, c_raw) ==
    LET m_raw == [i \in 1..Len(a) |-> a[i] + c_raw[i]]
    IN { [m |-> [i \in 1..Len(a) |-> Amt(m_raw[i])], c |-> c_d] :
           c_d \in envelope(a, m_raw, c_raw, a) }

\* the (m[d], c[d]) that solve_bellman can store for raw consumption c_raw:
\* m_raw = a + c_raw, m[d] = a, c[d] from the upper envelope on the grid m[d]
solve_bellman(a, c_raw) ==
    LET m_raw == [i \in 1..Len(a) |-> a[i] + c_raw[i]]
    IN { [m |-> [i \in 1..Len(a) |-> Amt(a[i])], c |-> c_d] :
           c_d \in envelope(a, m_raw, c_raw, a) }

-----------------------------------------------------------------------------
(* SpecGrid: the two ways a solution slice is filled, the terminal period    *)
(* and the EGM step, on every small grid                                     *)

InitGrid ==
    /\ \E n \in 2..MaxNa, hi \in 2..MaxAmax, k \in 0..MaxPoc,
          g \in 1..MaxInvGamma, r \in 1..2 :
          /\ n <= hi
          /\ \E a \in Grids(n, hi) :
                par = With([BasePar EXCEPT !.Na = n, !.a_max = hi, !.poc = k,
                                           !.inv_gamma = g, !.inv_rho = r],
                           "grid_a", a)
    /\ sol_m = <<nan_array(par.Na + par.poc)>>
    /\ sol_c = <<nan_array(par.Na + par.poc)>>
    /\ fn = "none"
    /\ args = [c_raw |-> << >>]
    /\ ret = << >>
    /\ IdleLoop
    /\ IdleOther

Call_last_period_solve ==
    /\ fn = "none"
    /\ fn' = "last_period.solve"
    /\ sol_m' = [sol_m EXCEPT ![1] = last_period_m(@, par)]
    /\ sol_c' = [sol_c EXCEPT ![1] = last_period_c(@, par)]
    /\ UNCHANGED <<par, args, ret, loopVars, otherVars>>

\* the arrays of egm.solve_bellman hold the Na grid points only
Call_solve_bellman ==
    /\ fn = "none"
    /\ par.poc = 0
    /\ \E c_raw \in [1..par.Na -> 1..MaxC] :
          \E r \in solve_bellman(par.grid_a, c_raw) :
              /\ args' = [c_raw |-> c_raw]
              /\ sol_m' = [sol_m EXCEPT ![1] = r.m]
              /\ sol_c' = [sol_c EXCEPT ![1] = r.c]
    /\ fn' = "solve_bellman"
    /\ UNCHANGED <<par, ret, loopVars, otherVars>>

NextGrid == Call_last_period_solve \/ Call_solve_bellman

SpecGrid == InitGrid /\ [][NextGrid]_vars

-----------------------------------------------------------------------------
(* SpecCouple: RetirementClass.solve of a couple model and of a single model, *)
(* with the couple-period step solve_bellman_c after compute_c               *)

\* the values the single-household solution can hold at a solved point
SingleV == {0, 1}

\* survival probabilities in halves: 0, 1/2, 1
PiHalves == {0, 1, 2}

NoIndex == 0 - 1

OutOfRange == [n |-> 0, v |-> NoIndex]

\* par of a couple (couple = TRUE) or single model with horizon T and age
\* differences AD = -lo..hi
CouplePar(c, T, lo, hi) ==
    With(With(With([BasePar EXCEPT !.T = T], "couple", c), "ad_min", lo),
         "ad_max", hi)

\* mutant: the nested single model is given the couple's own horizon
single_T_same(p) == p.T

\* Single.par.T = end_T - (start_T - ad_min) + 1: the nested single model
\* starts ad_min years before the couple and ends at the same age
single_T(p) == p.T + p.ad_min

\* the rows of par.pension_arr and par.survival_arr
table_rows(p) == p.T + p.ad_min + p.ad_max

\* mutant: the couple is solved before its single model
solve_calls_swapped(couple) ==
    IF couple THEN <<"couple", "single">> ELSE <<"single">>

\* the calls of RetirementClass.solve after the allocation, in order
solve_calls(couple) ==
    IF couple THEN <<"single", "couple">> ELSE <<"single">>

\* the call after call ph, "done" after the last one
NextCall(ph, couple) ==
    LET calls == solve_calls(couple)
        k == CHOOSE i \in 1..Len(calls) : calls[i] = ph
    IN IF k < Len(calls) THEN calls[k + 1] ELSE "done"

\* the first period of the backward loop of a call
TopPeriod(ph, p) == IF ph = "single" THEN single_T(p) - 1 ELSE p.T - 1

\* S[i], for an index that may lie outside the array
At(S, i) == IF i \in DOMAIN S THEN S[i] ELSE OutOfRange

\* the row of par.pension_arr that pension_look_up_c(t, male, ad, ...) reads
pension_look_up_c(t, male, ad, p) ==
    IF male = 1 THEN t + p.ad_min ELSE t + ad + p.ad_min

\* the rows of par.survival_arr that survival_look_up_c(t, ad, par) reads
survival_look_up_c(t, ad, p) == <<t + ad + p.ad_min, t + p.ad_min>>

\* the rows of the pension and survival tables that compute_c(t, ad, ...) reads
compute_c(t, ad, p) ==
    {pension_look_up_c(t + 1, 1, ad, p), pension_look_up_c(t + 1, 0, ad, p)}
    \cup Range(survival_look_up_c(t + 1, ad, p))

\* compute_c: dead = (1-pi_h)*(1-pi_w) and
\* q[d] = par.beta*(par.R*(1-dead)*avg_marg_u_plus + dead*par.gamma): the
\* weights of the continuation and of the bequest, in quarters
q_survival(ph, pw) ==
    [alive |-> 4 - (2 - ph) * (2 - pw), dead |-> (2 - ph) * (2 - pw)]

\* solve_bellman_c: the weights pi_h*pi_w of v_plus_raw[d] and 1-pi_h*pi_w of
\* the bequest par.gamma*a in v_raw, in quarters
v_raw_survival(ph, pw) ==
    [alive |-> ph * pw, dead |-> 4 - ph * pw]

\* mutant: the per-spouse blend, with the looked-up single values VH and VW
v_raw_per_spouse(ph, pw, vpr, VH, VW, a, p) ==
    << ph * pw * vpr * p.inv_gamma + ph * (2 - pw) * VH * p.inv_gamma
         + (2 - ph) * pw * VW * p.inv_gamma + (2 - ph) * (2 - pw) * a,
       4 * p.inv_beta * p.inv_gamma >>

\* v_raw = par.beta*(pi_h*pi_w*v_plus_raw[d] + (1-pi_h*pi_w)*par.gamma*a),
\* with pi_h = ph/2, pi_w = pw/2
v_raw_c(ph, pw, vpr, VH, VW, a, p) ==
    << v_raw_survival(ph, pw).alive * vpr * p.inv_gamma
         + v_raw_survival(ph, pw).dead * a,
       4 * p.inv_beta * p.inv_gamma >>

\* what solve_bellman_c(t, ad, ...) reads and hands to the upper envelope at
\* one grid point a, for one joint choice d: the single-model periods of VH
\* and VW (VW only when the wife is alive, t + ad < T), the survival rows, and
\* the raw solution c_raw, m_raw = a + c_raw, v_raw; m[d] = a
bellman_c_point(t, ad, ph, pw, vpr, c_raw, a, single, p) ==
    LET ad_idx == ad + p.ad_min
        alive == t + ad < p.T
        VH == At(single, t + p.ad_min).v
        VW == IF alive THEN At(single, t + ad_idx).v ELSE 0
    IN [ t |-> t, ad |-> ad, pi_h |-> ph, pi_w |-> pw, v_plus_raw |-> vpr,
         idx_h |-> t + p.ad_min,
         idx_w |-> IF alive THEN t + ad_idx ELSE NoIndex,
         rows  |-> Range(survival_look_up_c(t + 1, ad, p)),
         m     |-> a,
         c_raw |-> c_raw,
         m_raw |-> a + c_raw,
         v_raw |-> v_raw_c(ph, pw, vpr, VH, VW, a, p),
         v_split |-> v_raw_survival(ph, pw) ]

\* mutant: the view VH of the single solution is overwritten
solve_bellman_c_writes_single(t, ad, ph, pw, vpr, c_raw, a, single, p) ==
    With(bellman_c_point(t, ad, ph, pw, vpr, c_raw, a, single, p), "single",
         [i \in DOMAIN single |->
             IF i = t + p.ad_min THEN [single[i] EXCEPT !.v = 0] ELSE single[i]])

\* solve_bellman_c, with the single solution as the call leaves it
solve_bellman_c(t, ad, ph, pw, vpr, c_raw, a, single, p) ==
    With(bellman_c_point(t, ad, ph, pw, vpr, c_raw, a, single, p), "single",
         single)

\* solve_c: compute_c, which leaves q with its survival weights, then
\* solve_bellman_c
solve_c(t, ad, ph, pw, vpr, c_raw, a, single, p) ==
    LET r == solve_bellman_c(t, ad, ph, pw, vpr, c_raw, a, single, p)
    IN With([r EXCEPT !.rows = @ \cup compute_c(t, ad, p)],
            "q_split", q_survival(ph, pw))

InitCouple ==
    /\ \E c \in BOOLEAN, T \in 2..MaxCT, lo \in 0..MaxAdC, hi \in 0..MaxAdC :
          /\ ~c => (lo = 0 /\ hi = 0)
          /\ par = CouplePar(c, T, lo, hi)
    /\ pc = "prep"
    /\ loop_t = 0
    /\ loop_st = 0
    /\ sol = << >>
    /\ post = {}
    /\ IdleGrid
    /\ IdleCouple
    /\ IdleConc
    /\ IdleSim
    /\ fn = "none"
    /\ args = NoArgs
    /\ ret = << >>

\* a. allocate solution: Single._solve_prep (for a couple) and _solve_prep
SolvePrep ==
    /\ pc = "prep"
    /\ single_sol' = [ts \in 0..(single_T(par) - 1) |-> [n |-> 0, v |-> NoIndex]]
    /\ couple_sol' = IF par.couple
                     THEN [x \in (0..(par.T - 1)) \X (0..(par.ad_min + par.ad_max)) |-> 0]
                     ELSE << >>
    /\ pc' = solve_calls(par.couple)[1]
    /\ loop_t' = TopPeriod(solve_calls(par.couple)[1], par)
    /\ loop_st' = 0
    /\ UNCHANGED <<par, sol, post, used, callVars, gridVars, concVars, simVars>>

\* the position after the step of period loop_t (and age difference index
\* loop_st of n_ad) of call ph
AfterStep(ph, n_ad) ==
    IF loop_st + 1 < n_ad
    THEN <<ph, loop_t, loop_st + 1>>
    ELSE IF loop_t > 0
         THEN <<ph, loop_t - 1, 0>>
         ELSE LET nx == NextCall(ph, par.couple)
              IN <<nx, IF nx = "done" THEN 0 ELSE TopPeriod(nx, par), 0>>

Goto(pos) ==
    /\ pc' = pos[1]
    /\ loop_t' = pos[2]
    /\ loop_st' = pos[3]

\* solution.solve: one period of the single model
SingleStep ==
    /\ pc = "single"
    /\ \E v \in SingleV :
          single_sol' = [single_sol EXCEPT ![loop_t] = [n |-> @.n + 1, v |-> v]]
    /\ Goto(AfterStep("single", 1))
    /\ UNCHANGED <<par, sol, post, couple_sol, used, callVars, gridVars, concVars, simVars>>

\* solution.solve_c: the terminal period of the couple, which looks nothing up
CoupleLast ==
    /\ pc = "couple"
    /\ loop_t = par.T - 1
    /\ couple_sol' = [couple_sol EXCEPT ![<<loop_t, loop_st>>] = @ + 1]
    /\ used' = << >>
    /\ Goto(AfterStep("couple", par.ad_min + par.ad_max + 1))
    /\ UNCHANGED <<par, sol, post, single_sol, callVars, gridVars, concVars, simVars>>

\* solution.solve_c: egm.solve_c for period loop_t < T-1 and age difference
\* ad = loop_st - ad_min
CoupleStep ==
    /\ pc = "couple"
    /\ loop_t < par.T - 1
    /\ \E ph \in PiHalves, pw \in PiHalves, vpr \in SingleV, c_raw \in 1..MaxCRaw :
          LET r == solve_c(loop_t, loop_st - par.ad_min, ph, pw, vpr, c_raw,
                           GridLo, single_sol, par)
          IN /\ used' = [r EXCEPT !.single = << >>]
             /\ single_sol' = r.single
    /\ couple_sol' = [couple_sol EXCEPT ![<<loop_t, loop_st>>] = @ + 1]
    /\ Goto(AfterStep("couple", par.ad_min + par.ad_max + 1))
    /\ UNCHANGED <<par, sol, post, callVars, gridVars, concVars, simVars>>

NextCouple == SolvePrep \/ SingleStep \/ CoupleLast \/ CoupleStep

SpecCouple == InitCouple /\ [][NextCouple]_vars

-----------------------------------------------------------------------------
(* SpecWork: backward induction of the model without discrete states, whose  *)
(* post-decision step for the working choice is compute_work of              *)
(* New_main/post_decision.py.  sol maps each slice (t, d) of sol.c/m/v to     *)
(* how often it has been written and by which period's step.                 *)

\* slice x has been written once more, by the step of period by
Touch(solv, x, by) ==
    [solv EXCEPT ![x] = [n |-> @.n + 1, by |-> by]]

\* compute_work(t, sol, par): when forced retirement is next period
\* (t == Tr-2) the retired solution of t+1 is copied into the working slot,
\* c[:,1] = c[:,0], m[:,1] = m[:,0], v[:,1] = v[:,0], through views of
\* sol.c[t+1], sol.m[t+1], sol.v[t+1]; otherwise sol.c/m/v are only read
compute_work(solv, t, p) ==
    IF t = p.Tr - 2 THEN Touch(solv, <<t + 1, 1>>, t) ELSE solv

InitWork ==
    /\ \E T \in 2..MaxSolveT, Tr \in 2..MaxSolveT :
          /\ Tr <= T
          /\ par = [BasePar EXCEPT !.T = T, !.Tr = Tr]
    /\ loop_t = par.T - 1
    /\ loop_st = 0
    /\ pc = "loop"
    /\ sol = [x \in (0..(par.T - 1)) \X {0, 1} |-> [n |-> 0, by |-> 0 - 1]]
    /\ post = {}
    /\ fn = "none"
    /\ args = NoArgs
    /\ ret = << >>
    /\ IdleGrid
    /\ IdleOther

StepWork ==
    /\ loop_t' = IF loop_t > 0 THEN loop_t - 1 ELSE loop_t
    /\ pc' = IF loop_t > 0 THEN "loop" ELSE "done"
    /\ UNCHANGED <<par, loop_st, callVars, gridVars, otherVars>>

\* the terminal period: last_period.solve writes the retired slice
WorkLast ==
    /\ pc = "loop"
    /\ loop_t = par.T - 1
    /\ sol' = Touch(sol, <<loop_t, 0>>, loop_t)
    /\ post' = post
    /\ StepWork

\* retirement is forced: compute_retired, then the EGM step of the retired
\* choice
WorkRetired ==
    /\ pc = "loop"
    /\ loop_t # par.T - 1
    /\ loop_t >= par.Tr - 1
    /\ sol' = Touch(sol, <<loop_t, 0>>, loop_t)
    /\ post' = post \cup {<<loop_t, 0>>}
    /\ StepWork

\* both choices are open: compute_retired and compute_work, then the EGM
\* step of each choice
WorkBoth ==
    /\ pc = "loop"
    /\ loop_t # par.T - 1
    /\ loop_t < par.Tr - 1
    /\ sol' = Touch(Touch(compute_work(sol, loop_t, par), <<loop_t, 0>>, loop_t),
                    <<loop_t, 1>>, loop_t)
    /\ post' = post \cup {<<loop_t, 0>>, <<loop_t, 1>>}
    /\ StepWork

NextWork == WorkLast \/ WorkRetired \/ WorkBoth

SpecWork == InitWork /\ [][NextWork]_vars

-----------------------------------------------------------------------------
(* SpecSim: the global generator np.random, seeded by setup_grids and drawn  *)
(* from by _simulate_prep.  A block of n numbers drawn from the stream of    *)
(* seed s at position k is held as <<s, k, n>>: two blocks hold the same     *)
(* numbers exactly when they are the same part of the same stream.           *)

\* the values of par.sim_seed that are explored (1998 is the baseline)
Seeds == {1998, 7}

\* np.random.seed(s)
seed(s) == [seed |-> s, pos |-> 0]

\* the generator after n more numbers have been drawn
advance(g, n) == [g EXCEPT !.pos = @ + n]

\* the block of the next n numbers of the generator
block(g, n) == <<g.seed, g.pos, n>>

\* d. draw random shocks: unif and deadP of simT*simN numbers each, then
\* Tr-1 income shocks for each of the simN households
draw_shocks(g, p) ==
    LET n == p.simT * p.simN
        g1 == advance(g, n)
        g2 == advance(g1, n)
    IN [ unif      |-> block(g, n),
         deadP     |-> block(g1, n),
         inc_shock |-> block(g2, p.simN * (p.Tr - 1)),
         rng       |-> advance(g2, p.simN * (p.Tr - 1)) ]

\* the state after RetirementModelClass(...): setup() ends with setup_grids(),
\* which sets the seed
InitSim ==
    /\ \E T \in 1..MaxSimT, N \in 1..MaxSimN, Tr \in 2..3, s \in Seeds :
          par = With(With(With([BasePar EXCEPT !.Tr = Tr], "simT", T),
                          "simN", N), "sim_seed", s)
    /\ rng = seed(par.sim_seed)
    /\ sims = << >>
    /\ fn = "none"
    /\ args = NoArgs
    /\ ret = << >>
    /\ IdleLoop
    /\ IdleGrid
    /\ IdleCouple
    /\ IdleConc

\* simulate(): _simulate_prep draws the shocks, simulate.lifecycle consumes
\* them
Simulate ==
    /\ Len(sims) < MaxSims
    /\ LET r == draw_shocks(rng, par)
       IN /\ sims' = Append(sims, [seed  |-> par.sim_seed,
                                   unif  |-> r.unif,
                                   deadP |-> r.deadP,
                                   inc_shock |-> r.inc_shock])
          /\ rng' = r.rng
    /\ UNCHANGED <<par, callVars, loopVars, gridVars, coupleVars, concVars>>

\* setup_grids() called again on the model
SetupGrids ==
    /\ rng # seed(par.sim_seed)
    /\ rng' = seed(par.sim_seed)
    /\ UNCHANGED <<par, sims, callVars, loopVars, gridVars, coupleVars, concVars>>

NextSim == Simulate \/ SetupGrids

SpecSim == InitSim /\ [][NextSim]_vars

-----------------------------------------------------------------------------
(* SpecShock: setup_grids builds the quadrature rules of the income shocks,  *)
(* and a model is solved only after it.  A rule is held by dev, its weighted  *)
(* sum of nodes sum(w*x) minus 1 in units of 1e-9: <<d>> for a number d, and  *)
(* << >> for nan (negative variance).  A Gauss-Hermite rule never            *)
(* overestimates the mean of a log-normal, so d <= 0.                        *)

\* the tolerance 1e-8 of GaussHermite_lognorm, in units of 1e-9
GhTol == 10

\* the weighted sums a rule can have: short of 1 by more than the tolerance,
\* by the tolerance, by less, exact, and not a number
DevSet == {<<0 - GhTol - 1>>, <<0 - GhTol>>, <<0 - 1>>, <<0>>, << >>}

\* GaussHermite_lognorm: assert(1 - sum(w*x) < 1e-8); a comparison with nan
\* is false
GaussHermite_lognorm(dev) ==
    IF dev # << >> /\ 0 - dev[1] < GhTol
    THEN [raised |-> FALSE, dev |-> dev]
    ELSE [raised |-> TRUE, dev |-> dev]

\* GH_lognorm_corr: np.linalg.cholesky raises unless the covariance matrix is
\* positive definite (pd); the weights w1*w2 sum to 1; the weighted sums
\* dev1, dev2 of the nodes x1, x2 are not looked at
GH_lognorm_corr(pd, dev1, dev2) ==
    IF pd
    THEN [raised |-> FALSE, dev1 |-> dev1, dev2 |-> dev2]
    ELSE [raised |-> TRUE, dev1 |-> dev1, dev2 |-> dev2]

\* setup_grids: b. the rules of men and women, c. for a couple the rule of
\* the correlated shocks; the first assertion that fails ends it
setup_grids(couple, a) ==
    LET men == GaussHermite_lognorm(a.dev_men)
        women == GaussHermite_lognorm(a.dev_women)
        corr == GH_lognorm_corr(a.pd, a.dev_men_corr, a.dev_women_corr)
    IN IF men.raised THEN [raised |-> TRUE, rules |-> << >>]
       ELSE IF women.raised THEN [raised |-> TRUE, rules |-> <<men.dev>>]
       ELSE IF ~couple
            THEN [raised |-> FALSE, rules |-> <<men.dev, women.dev>>]
       ELSE IF corr.raised
            THEN [raised |-> TRUE, rules |-> <<men.dev, women.dev>>]
       ELSE [raised |-> FALSE,
             rules |-> <<men.dev, women.dev, corr.dev1, corr.dev2>>]

InitShock ==
    /\ \E c \in BOOLEAN : par = With(BasePar, "couple", c)
    /\ \E dm \in DevSet, dw \in DevSet, pd \in BOOLEAN,
          d1 \in DevSet \ {<< >>}, d2 \in DevSet \ {<< >>} :
          /\ ~par.couple => (pd /\ d1 = <<0>> /\ d2 = <<0>>)
          /\ args = [dev_men |-> dm, dev_women |-> dw, pd |-> pd,
                     dev_men_corr |-> d1, dev_women_corr |-> d2]
    /\ pc = "setup"
    /\ fn = "none"
    /\ ret = << >>
    /\ loop_t = 0
    /\ loop_st = 0
    /\ sol = << >>
    /\ post = {}
    /\ IdleGrid
    /\ IdleOther

\* RetirementClass(...): pars, then setup_grids
BuildShocks ==
    /\ pc = "setup"
    /\ LET r == setup_grids(par.couple, args)
       IN /\ ret' = r.rules
          /\ pc' = IF r.raised THEN "raised" ELSE "ready"
    /\ fn' = "setup_grids"
    /\ UNCHANGED <<par, args, loop_t, loop_st, sol, post, gridVars, otherVars>>

\* model.solve() on a model that has been built
SolveBuilt ==
    /\ pc = "ready"
    /\ pc' = "solved"
    /\ fn' = "solve"
    /\ UNCHANGED <<par, args, ret, loop_t, loop_st, sol, post, gridVars, otherVars>>

NextShock == BuildShocks \/ SolveBuilt

SpecShock == InitShock /\ [][NextShock]_vars

-----------------------------------------------------------------------------
(* SpecQuad: the quadrature rule that post_decision.compute (a single) and   *)
(* post_decision.compute_c (a couple) hand to shocks_GH for each choice.      *)
(* Weights are held in units of 1/36, so that the weights of the Gauss-       *)
(* Hermite rules with 1, 2 and 3 nodes and their products are integers.       *)

\* the weight 1.0
WeightOne == 36

\* the numbers of nodes par.Nxi, par.Nxi_men, par.Nxi_women that are modelled
NodeCounts == {1, 2, 3}

\* GaussHermite(n)[1] / sqrt(pi): the weights 1; 1/2, 1/2; 1/6, 2/3, 1/6
hermgauss_w(n) ==
    CASE n = 1 -> <<36>>
      [] n = 2 -> <<18, 18>>
      [] n = 3 -> <<6, 24, 6>>

\* the weights w of GH_lognorm_corr: w1*w2 on the raveled meshgrid
w_corr(n_men, n_women) ==
    [k \in 1..(n_men * n_women) |->
        (hermgauss_w(n_men)[((k - 1) \div n_women) + 1]
           * hermgauss_w(n_women)[((k - 1) % n_women) + 1]) \div WeightOne]

\* the labour income of the next period at each node, a positive amount
labor_look_up(n) == [i \in 1..n |-> i]

\* compute: the weights w and the stochastic income inc of choice d of a
\* single of sex ma
compute_w(ma, d, p) ==
    IF d = 0
    THEN [w |-> <<WeightOne>>, inc |-> <<0>>]
    ELSE [w   |-> hermgauss_w(p.Nxi),
          inc |-> labor_look_up(p.Nxi)]

\* compute_c: the weights w and the stochastic income inc of the joint choice
\* (d_h, d_w); with both retired w = np.array([0.0]) and inc = w[:]
compute_c_w(d_h, d_w, p) ==
    IF d_h = 0 /\ d_w = 0
    THEN [w |-> <<0>>, inc |-> <<0>>]
    ELSE IF d_h = 0 /\ d_w = 1
    THEN [w |-> hermgauss_w(p.Nxi), inc |-> labor_look_up(p.Nxi)]
    ELSE IF d_h = 1 /\ d_w = 0
    THEN [w |-> hermgauss_w(p.Nxi), inc |-> labor_look_up(p.Nxi)]
    ELSE [w   |-> w_corr(p.Nxi_men, p.Nxi_women),
          inc |-> labor_look_up(p.Nxi_men * p.Nxi_women)]

RECURSIVE SumTo(_, _)
SumTo(w, n) == IF n = 0 THEN 0 ELSE w[n] + SumTo(w, n - 1)

\* shocks_GH: each node i adds w[i] times its term to v_plus_raw and to
\* avg_marg_u_plus; total is the weight accumulated over range(len(w))
shocks_GH(r) == [w |-> r.w, inc |-> r.inc, total |-> SumTo(r.w, Len(r.w))]

InitQuad ==
    /\ \E n \in NodeCounts, n_men \in NodeCounts, n_women \in NodeCounts :
          par = With(With(With(BasePar, "Nxi", n), "Nxi_men", n_men),
                     "Nxi_women", n_women)
    /\ \E ma \in {0, 1}, d_h \in {0, 1}, d_w \in {0, 1} :
          args = [ma |-> ma, d_h |-> d_h, d_w |-> d_w]
    /\ fn = "none"
    /\ ret = << >>
    /\ IdleLoop
    /\ IdleGrid
    /\ IdleOther

\* compute for a single of sex ma and choice d = d_h
Call_compute ==
    /\ fn = "none"
    /\ fn' = "compute"
    /\ ret' = shocks_GH(compute_w(args.ma, args.d_h, par))
    /\ UNCHANGED <<par, args, loopVars, gridVars, otherVars>>

\* compute_c for the joint choice (d_h, d_w)
Call_compute_c ==
    /\ fn = "none"
    /\ fn' = "compute_c"
    /\ ret' = shocks_GH(compute_c_w(args.d_h, args.d_w, par))
    /\ UNCHANGED <<par, args, loopVars, gridVars, otherVars>>

NextQuad == Call_compute \/ Call_compute_c

SpecQuad == InitQuad /\ [][NextQuad]_vars

-----------------------------------------------------------------------------
(* SpecConc: the solves egm.solve(t, ..., st, ...) of the states of one      *)
(* period, run concurrently.  Each solve is post_decision.compute followed   *)
(* by egm.solve_bellman; sol.q and sol.v_plus_raw are arrays of shape        *)
(* (ND, Na), the same for every state.                                       *)

\* utility.inv_marg_func(q, par) = q^(-1/rho)
inv_marg_func(q, p) == <<1, Pow(q, p.inv_rho)>>

\* q[d,:] of state st, par.beta*(par.R*pi*avg_marg_u_plus + (1-pi)*par.gamma),
\* from the next-period solution of that state; args.q_st holds it by state
q_of(st) == args.q_st[st + 1]

\* what the sequential loop stores for state st
sequential_out(st) == inv_marg_func(q_of(st), par)

InitConc ==
    /\ par = BasePar
    /\ \E n \in 2..MaxConc :
          /\ \E f \in [1..n -> 1..MaxQ] : args = [q_st |-> f]
          /\ st_pc = [st \in 0..(n - 1) |-> "compute"]
          /\ st_out = [st \in 0..(n - 1) |-> NaN]
    /\ scratch = [q |-> NaN, writers |-> {}]
    /\ fn = "none"
    /\ ret = << >>
    /\ IdleLoop
    /\ IdleGrid
    /\ IdleCouple
    /\ IdleSim

\* post_decision.compute of state st: d. store results, q[d,:] = ...
Compute(st) ==
    /\ st_pc[st] = "compute"
    /\ scratch' = [q |-> q_of(st), writers |-> scratch.writers \cup {st}]
    /\ st_pc' = [st_pc EXCEPT ![st] = "bellman"]
    /\ UNCHANGED <<par, st_out, callVars, loopVars, gridVars, coupleVars, simVars>>

\* egm.solve_bellman of state st: c_raw = utility.inv_marg_func(q[d], par),
\* stored through the upper envelope in the slice of st
Bellman(st) ==
    /\ st_pc[st] = "bellman"
    /\ st_out' = [st_out EXCEPT ![st] = inv_marg_func(scratch.q, par)]
    /\ st_pc' = [st_pc EXCEPT ![st] = "done"]
    /\ UNCHANGED <<par, scratch, callVars, loopVars, gridVars, coupleVars, simVars>>

ComputeOfSome == \E st \in DOMAIN st_pc : Compute(st)

BellmanOfSome == \E st \in DOMAIN st_pc : Bellman(st)

NextConc == ComputeOfSome \/ BellmanOfSome

SpecConc == InitConc /\ [][NextConc]_vars

-----------------------------------------------------------------------------
(* Statements about the regime resolver *)

forced_h(t, p) == t + 1 = p.Tr - 1

forced_w(t, ad, p) == t + 1 + ad = p.Tr - 1

\* C2: d_plus(t, d): a retired individual's next-period choice set is
\* {retired} at every t; a working individual's is {retired, working} while
\* t+1 < Tr-1 and {retired} when t+1 = Tr-1.
C2_d_plus_choice_set ==
    fn = "d_plus" =>
        /\ args.d = 0 => Range(ret) = {0}
        /\ (args.d = 1 /\ args.t + 1 < par.Tr - 1) => Range(ret) = {0, 1}
        /\ (args.d = 1 /\ args.t + 1 = par.Tr - 1) => Range(ret) = {0}

C2_witness ==
    /\ fn = "d_plus"
    /\ args.d = 1
    /\ args.t + 1 = par.Tr - 1
    /\ ret = <<0>>

\* the number of entries d_plus_c is to return, from today's joint choice, the
\* sign of the age difference and which spouse is forced to retire next period
CountByForced(d, ad, hf, wf) ==
    CASE d = 0 -> 1
      [] d \in {1, 2} -> 2
      [] d = 3 -> IF ad = 0 /\ hf /\ wf THEN 1
                  ELSE IF (ad < 0 /\ hf) \/ (ad > 0 /\ wf) THEN 2
                  ELSE 4

C4_same_age_both_working ==
    (fn = "d_plus_c" /\ args.ad = 0 /\ args.d = 3) =>
        /\ args.t = par.Tr - 2 => ret = <<0>>
        /\ args.t < par.Tr - 2 => ret = <<0, 1, 2, 3>>

C4_witness ==
    /\ fn = "d_plus_c"
    /\ args.ad = 0
    /\ args.d = 3
    /\ args.t = par.Tr - 2
    /\ ret = <<0>>

\* C5: for a state that is not eligible, ra_look_up returns bucket 2 ("not
\* yet eligible") at every t, ra and d, whatever the retirement ages are.
C5_ineligible_bucket ==
    (fn = "ra_look_up" /\ ST[args.st + 1][1] = 0) => ret = <<2>>

C5_witness ==
    /\ fn = "ra_look_up"
    /\ ST[args.st + 1][1] = 0
    /\ args.d = 1
    /\ args.ra = 0
    /\ args.t + 1 + par.start_T >= par.two_year
    /\ args.t >= par.oap_age - par.start_T
    /\ ret = <<2>>

\* C6: for an eligible state ra_look_up returns, if retired (d = 0), ra while
\* t < inv_age(oap_age)-1 and 0 from then on; if working (d = 1), 0 when the
\* age at t+1 has reached the two-year-rule age, 1 when it has reached the
\* early-retirement age only, 2 otherwise; always a bucket in {0,1,2}.
C6_eligible_bucket ==
    (fn = "ra_look_up" /\ ST[args.st + 1][1] = 1) =>
        LET age1 == args.t + 1 + par.start_T
            r == ret[1]
        IN /\ r \in {0, 1, 2}
           /\ (args.d = 0 /\ args.t < par.oap_age - par.start_T - 1) => r = args.ra
           /\ (args.d = 0 /\ args.t >= par.oap_age - par.start_T - 1) => r = 0
           /\ (args.d = 1 /\ age1 >= par.two_year) => r = 0
           /\ (args.d = 1 /\ age1 < par.two_year /\ age1 >= par.erp_age) => r = 1
           /\ (args.d = 1 /\ age1 < par.two_year /\ age1 < par.erp_age) => r = 2

C6_witness ==
    /\ fn = "ra_look_up"
    /\ ST[args.st + 1][1] = 1
    /\ args.d = 1
    /\ args.t + 1 + par.start_T = par.two_year
    /\ par.erp_age < par.two_year
    /\ ret = <<0>>

-----------------------------------------------------------------------------
(* Statements about the logsums *)

NumericallyZero == abs(par.sigma_eta) <= SigmaTol

\* the lowest index d at which column i of V attains its maximum
ArgMax(V, i) ==
    CHOOSE d \in 1..Len(V) :
        /\ \A e \in 1..Len(V) : V[d][i] >= V[e][i]
        /\ \A e \in 1..(d - 1) : V[e][i] < V[d][i]

\* for every column, logsum is the maximum and prob the indicator of ArgMax
HardMaxIndicator(V, r) ==
    \A i \in 1..Len(V[1]) :
        /\ r.logsum[i] = V[ArgMax(V, i)][i]
        /\ \A d \in 1..Len(V) :
              r.prob[d][i] = IF d = ArgMax(V, i) THEN 1 ELSE 0

\* C7: with a numerically zero taste-shock scale (|sigma_eta| <= 1e-10)
\* logsum2 returns, column by column, max(V0, V1) and the indicator of the
\* arg-max; on a tie V0 = V1 choice 0 gets probability 1.
C7_logsum2_hard_max ==
    (fn = "logsum2" /\ NumericallyZero) =>
        /\ ret.branch = "hard"
        /\ HardMaxIndicator(args.V, ret)
        /\ \A i \in 1..Len(args.V[1]) :
              args.V[1][i] = args.V[2][i] =>
                  (ret.prob[1][i] = 1 /\ ret.prob[2][i] = 0)

C7_witness ==
    /\ fn = "logsum2"
    /\ par.sigma_eta = SigmaTol
    /\ Len(args.V[1]) = 2
    /\ args.V[1][1] = args.V[2][1]
    /\ args.V[1][2] < args.V[2][2]
    /\ ret.prob[1] = <<1, 0>>
    /\ ret.prob[2] = <<0, 1>>

\* C8: with a numerically zero taste-shock scale logsum4 returns, column by
\* column, the maximum of (V0,V1,V2,V3) and the indicator of the lowest-index
\* maximiser: exactly one entry is 1 and the probabilities sum to 1, also
\* when choice 3 is the only maximiser.
C8_logsum4_hard_max ==
    (fn = "logsum4" /\ NumericallyZero) =>
        /\ ret.branch = "hard"
        /\ HardMaxIndicator(args.V, ret)
        /\ \A i \in 1..Len(args.V[1]) :
              ret.prob[1][i] + ret.prob[2][i] + ret.prob[3][i] + ret.prob[4][i] = 1

-----------------------------------------------------------------------------
(* Statements about the solver *)

Written(x) == sol[x].n > 0

StateIdx == 0..(Len(states) - 1)

\* C1: during one solve the periods are processed in the order T-1, ..., 0:
\* a slice of period t is written only by the step of period t and never
\* ahead of the period the loop is at, and every state of every later period
\* has been written by then (so no slice of period t is written before all
\* states of period t+1 are).
C1_decreasing_time_order ==
    pc \in {"loop", "done"} =>
        /\ \A x \in DOMAIN sol :
              Written(x) => (sol[x].by = x[1] /\ x[1] >= loop_t)
        /\ \A tt \in (loop_t + 1)..(par.T - 1) :
              \A s \in StateIdx : Written(<<tt, s, 0>>)

C1_witness ==
    /\ pc = "loop"
    /\ loop_t < par.T - 2
    /\ loop_st > 0
    /\ Written(<<loop_t, 0, 1>>)
    /\ ~Written(<<loop_t, loop_st, 0>>)

MinAmt(x, y) == IF Le(x, y) THEN x ELSE y

\* C9: in the terminal period t = T-1 the stored consumption is, at every
\* point of the grid m, min(m, c*) with c* = (beta*gamma)^(-1/rho), and no
\* post-decision computation is run for that period.
C9_terminal_consumption ==
    pc \in {"loop", "done"} =>
        \A s \in StateIdx :
            /\ <<par.T - 1, s>> \notin post
            /\ Written(<<par.T - 1, s, 0>>) =>
                  \A i \in (par.poc + 1)..(par.poc + par.Na) :
                      /\ Eq(sol_m[s + 1][i],
                            linspace(GridLo, par.a_max, par.Na)[i - par.poc])
                      /\ Eq(sol_c[s + 1][i],
                            MinAmt(sol_m[s + 1][i],
                                   Amt(Pow(par.inv_beta * par.inv_gamma, par.inv_rho))))

C9_witness ==
    /\ pc = "loop"
    /\ loop_t = par.T - 2
    /\ Written(<<par.T - 1, 3, 0>>)
    /\ Eq(sol_c[4][par.poc + 1], sol_m[4][par.poc + 1])
    /\ Lt(sol_c[4][par.poc + par.Na], sol_m[4][par.poc + par.Na])
    /\ post # {}

\* C10: every solved point is feasible, 0 < consumption <= cash-on-hand, in
\* the terminal period and after the EGM step.
C10_feasible_consumption ==
    fn \in {"last_period.solve", "solve_bellman"} =>
        \A i \in (IF fn = "solve_bellman" THEN 1 ELSE par.poc + 1)..Len(sol_c[1]) :
            /\ Lt(Amt(0), sol_c[1][i])
            /\ Le(sol_c[1][i], sol_m[1][i])

\* an EGM step whose raw grid m_raw = a + c_raw is not monotone, and which
\* stores a constrained point (c = m) and an interior one (c < m)
C10_witness ==
    /\ fn = "solve_bellman"
    /\ \E i \in 1..(par.Na - 1) :
          par.grid_a[i] + args.c_raw[i] > par.grid_a[i + 1] + args.c_raw[i + 1]
    /\ Eq(sol_c[1][1], sol_m[1][1])
    /\ Lt(sol_c[1][par.Na], sol_m[1][par.Na])

\* the raw grid m_raw = a + c_raw of the EGM step taken is not monotone
RawNotMonotone ==
    \E i \in 1..(par.Na - 1) :
        par.grid_a[i] + args.c_raw[i] > par.grid_a[i + 1] + args.c_raw[i + 1]

\* C11: the stored cash-on-hand grid m of a solved slice is non-decreasing in
\* the grid index, in the terminal period and after the EGM step, whether or
\* not the raw grid m_raw = a + c_raw is.
C11_monotone_m ==
    fn \in {"last_period.solve", "solve_bellman"} =>
        \A i \in (IF fn = "solve_bellman" THEN 1 ELSE par.poc + 1)..(Len(sol_m[1]) - 1) :
            /\ ~IsNaN(sol_m[1][i])
            /\ ~IsNaN(sol_m[1][i + 1])
            /\ Le(sol_m[1][i], sol_m[1][i + 1])

C11_witness ==
    /\ fn = "solve_bellman"
    /\ RawNotMonotone
    /\ par.Na >= 3
    /\ Lt(sol_m[1][1], sol_m[1][par.Na])

-----------------------------------------------------------------------------
(* Statements about the couple model *)

CoupleStarted == \E x \in DOMAIN couple_sol : couple_sol[x] > 0

SingleComplete ==
    /\ DOMAIN single_sol = 0..(par.T + par.ad_min - 1)
    /\ \A ts \in DOMAIN single_sol : single_sol[ts].n > 0

\* C12: when a couple model is solved, the nested single-household solve has
\* run over all its periods before the first couple period is solved, and no
\* single-household step runs once a couple period has been solved.
C12_single_before_couple ==
    (par.couple /\ pc # "prep") =>
        /\ (CoupleStarted \/ pc = "couple") => SingleComplete
        /\ pc = "single" => ~CoupleStarted

C12_witness ==
    /\ par.couple
    /\ par.ad_min > 0
    /\ pc = "couple"
    /\ loop_t < par.T - 1
    /\ CoupleStarted
    /\ used # << >>

\* C13: a couple-period solve leaves the single-household solution as it is.
C13_single_sol_unchanged ==
    [][pc = "couple" => single_sol' = single_sol]_vars

C13_witness ==
    /\ par.couple
    /\ pc = "done"
    /\ used # << >>
    /\ used.idx_w # NoIndex
    /\ used.idx_w # used.idx_h

\* what the last couple-period step would have handed to the upper envelope
\* had the single-household solution held alt
WithSingle(alt) ==
    [solve_c(used.t, used.ad, used.pi_h, used.pi_w, used.v_plus_raw,
             used.c_raw, used.m, alt, par) EXCEPT !.single = << >>]

\* C17: the couple's candidate value is the joint-survival-only blend
\* beta*(pi_h*pi_w*v_plus_raw + (1 - pi_h*pi_w)*gamma*a), and what the step
\* hands to the upper envelope (so what it stores in c, m, v) is the same for
\* every content of the single-household solution.
C17_joint_survival_only ==
    (pc \in {"couple", "done"} /\ used # << >>) =>
        /\ Eq(used.v_raw,
              << used.pi_h * used.pi_w * used.v_plus_raw * par.inv_gamma
                   + (4 - used.pi_h * used.pi_w) * used.m,
                 4 * par.inv_beta * par.inv_gamma >>)
        /\ \A alt \in [DOMAIN single_sol -> [n : {1}, v : SingleV]] :
              WithSingle(alt) = used

\* a step with both spouses at risk (0 < pi < 1) whose looked-up single values
\* VH and VW are not zero
C17_witness ==
    /\ pc \in {"couple", "done"}
    /\ used # << >>
    /\ used.pi_h = 1
    /\ used.pi_w = 1
    /\ used.idx_w # NoIndex
    /\ single_sol[used.idx_h].v = 1
    /\ single_sol[used.idx_w].v = 1

\* C18: every age-shifted index of a couple-period step (t in 0..T-2, ad in
\* -ad_min..ad_max) is covered: the single-solution periods t+ad_min and, when
\* t+ad < T, t+ad+ad_min lie in 0..T+ad_min-1 and are solved, and the pension
\* and survival rows lie in 0..T+ad_min+ad_max-1.
C18_shifted_indices_covered ==
    (pc \in {"couple", "done"} /\ used # << >>) =>
        /\ used.t \in 0..(par.T - 2)
        /\ used.ad \in (0 - par.ad_min)..par.ad_max
        /\ used.idx_h = used.t + par.ad_min
        /\ used.idx_h \in 0..(par.T + par.ad_min - 1)
        /\ used.idx_h \in DOMAIN single_sol
        /\ At(single_sol, used.idx_h).n > 0
        /\ (used.t + used.ad < par.T) = (used.idx_w # NoIndex)
        /\ used.idx_w # NoIndex =>
              /\ used.idx_w = used.t + used.ad + par.ad_min
              /\ used.idx_w \in 0..(par.T + par.ad_min - 1)
              /\ used.idx_w \in DOMAIN single_sol
              /\ At(single_sol, used.idx_w).n > 0
        /\ used.rows = {used.t + 1 + par.ad_min,
                        used.t + 1 + used.ad + par.ad_min}
        /\ used.rows \subseteq 0..(par.T + par.ad_min + par.ad_max - 1)
        /\ used.rows \subseteq 0..(table_rows(par) - 1)

\* the oldest wife in the last solved period: the last single-model period and
\* the last table row are read
C18_witness ==
    /\ used # << >>
    /\ par.ad_min > 0
    /\ par.ad_max > 0
    /\ used.ad = par.ad_max
    /\ used.t = par.T - 2
    /\ used.idx_w = par.T + par.ad_min - 1
    /\ (par.T + par.ad_min + par.ad_max - 1) \in used.rows

\* C29: within one couple solve the survival probabilities split the
\* continuation and the bequest in the same way in the post-decision marginal
\* value q and in the raw value v_raw.
C29_same_survival_split ==
    (pc \in {"couple", "done"} /\ used # << >>) => used.q_split = used.v_split

-----------------------------------------------------------------------------
(* Statements about concurrent states *)

AllDone == \A st \in DOMAIN st_pc : st_pc[st] = "done"

\* C14: when the states of one period are solved concurrently, no shared
\* array (solution or post-decision scratch) is written by two of them, and
\* whatever the interleaving each state's slice ends up holding what the
\* sequential loop stores.
C14_disjoint_writes ==
    scratch # << >> =>
        /\ Cardinality(scratch.writers) <= 1
        /\ AllDone => \A st \in DOMAIN st_out : st_out[st] = sequential_out(st)

-----------------------------------------------------------------------------
(* Statements about the choice of the solving path *)

\* the household of state index s is eligible for early retirement
Eligible(s) == states[s + 1][2] = 1

\* the age at t+1 lies in the early-retirement window: from the first age of
\* the early-retirement period up to, not including, the old-age-pension age
InErpWindow(t) ==
    /\ erp_period_lo <= t + 1 + par.start_T
    /\ t + 1 + par.start_T < par.oap_age

\* the solving path for (t, s), by the priority terminal, forced retirement,
\* old-age pension, early-retirement recalculation, pre-eligibility
PathByPriority(t, s) ==
    IF t = par.T - 1 THEN "last_period.solve"
    ELSE IF t + 1 >= par.Tr - 1 THEN "egm.solve_bellman_retired"
    ELSE IF t + 1 + par.start_T >= par.oap_age THEN "egm.post_and_egm [0,0,0]"
    ELSE IF InErpWindow(t) /\ Eligible(s) THEN "egm.recalculate"
    ELSE "egm.post_and_egm [0,2,0]"

-----------------------------------------------------------------------------
(* Statements about the writes of the post-decision step *)

\* C15: within one solve each slice of the solution arrays c, m, v is written
\* at most once, and by the backward-induction step of its own period.
C15_written_once_by_own_step ==
    pc \in {"loop", "done"} =>
        \A x \in DOMAIN sol :
            /\ sol[x].n <= 1
            /\ sol[x].n > 0 => sol[x].by = x[1]

\* C26: the post-decision step of period t leaves the solution arrays c, m, v
\* of period t+1 as they were, also at t = Tr-2 where retirement is forced
\* next period: it only reads them.
C26_next_period_unchanged ==
    [][ pc = "loop" =>
           \A x \in DOMAIN sol : x[1] = loop_t + 1 => sol'[x] = sol[x] ]_vars

\* the choices whose slices of (loop_t, loop_st) the current step writes
SolvedNow == { d \in {0, 1} : sol'[<<loop_t, loop_st, d>>] # sol[<<loop_t, loop_st, d>>] }

\* C27: every slice of period t+1 that the post-decision step of period t
\* reads (the bucket that ra_look_up gives, each choice in d_plus) has been
\* written before, in the same solve: a slice that still holds NaN is never
\* read.  The slice read is one of the discrete state being solved; it
\* counts as written in every bucket once the step of (t+1, st) has written
\* its choice, so the statement is checked for every eligibility and skill
\* s the regime resolver can be asked about and every status ra.
C27_reads_are_written ==
    [][ (pc = "loop" /\ loop_t < par.T - 1) =>
           \A d \in SolvedNow, s \in 0..(Len(ST) - 1), ra \in 0..2 :
              \A x \in compute_reads(loop_t, s, ra, d, par) :
                 sol[<<x[1], loop_st, x[4]>>].n > 0 ]_vars

-----------------------------------------------------------------------------
(* Statements about the simulation *)

\* C19: simulations of one model with the same seed, solution and parameters
\* draw the same income, mortality and taste shocks, a second simulate() on
\* the same model object included.
C19_same_seed_same_shocks ==
    \A i \in DOMAIN sims, j \in DOMAIN sims :
        sims[i].seed = sims[j].seed => sims[i] = sims[j]

-----------------------------------------------------------------------------
(* Statements about the quadrature rules *)

\* the weighted sum of the nodes is within the tolerance of 1
WithinTol(dev) == dev # << >> /\ 0 - GhTol <= dev[1] /\ dev[1] <= GhTol

\* the weighted sums of the rules that setup_grids has to build
RulesToBuild ==
    {args.dev_men, args.dev_women}
    \cup (IF par.couple THEN {args.dev_men_corr, args.dev_women_corr} ELSE {})

\* C20: the builder raises, and no solve proceeds, whenever the weighted sum
\* of the nodes of a rule differs from 1 by more than the tolerance, whether
\* it is too small or too large; a rule is accepted only within the tolerance.
C20_normalisation_enforced ==
    /\ pc \in {"ready", "solved"} =>
          /\ \A dev \in RulesToBuild : WithinTol(dev)
          /\ \A k \in 1..Len(ret) : WithinTol(ret[k])
    /\ (pc # "setup" /\ \E dev \in RulesToBuild : ~WithinTol(dev)) => pc = "raised"

-----------------------------------------------------------------------------
(* Statements about paths of choices *)

\* C21: retirement is absorbing: along a path whose choices follow d_plus or
\* d_plus_c, an individual who is retired in one period is retired in the
\* next, and so in every later one; in a couple this holds for each spouse.
C21_retirement_absorbing ==
    [][ /\ (pc = "single" /\ args.d = 0) => args'.d = 0
        /\ (pc = "couple" /\ ~works_h(args.d)) => ~works_h(args'.d)
        /\ (pc = "couple" /\ ~works_w(args.d)) => ~works_w(args'.d) ]_vars

\* a retired single, and a couple with exactly one retired spouse, have been
\* followed for two periods after somebody retired
C21_witness ==
    /\ Len(ret) >= 4
    /\ \/ pc = "single" /\ ret[1] = 1 /\ ret[2] = 0 /\ args.d = 0
       \/ pc = "couple" /\ ret[1] = 3 /\ ret[2] \in {1, 2} /\ ret[3] = ret[2]

\* the path began in period 0 with everybody working
FromAllWorking ==
    /\ loop_t = 0
    /\ ret[1] = IF pc = "single" THEN 1 ELSE 3

\* C22: along a path that begins at t = 0 with everybody working, a single
\* or a husband does not work in a period t >= Tr-1, and a wife does not work
\* in a period with t + ad >= Tr-1.
C22_nobody_works_after_forced ==
    (pc \in {"single", "couple"} /\ FromAllWorking) =>
        /\ (pc = "single" /\ args.t >= par.Tr - 1) => args.d = 0
        /\ (pc = "couple" /\ args.t >= par.Tr - 1) => ~works_h(args.d)
        /\ (pc = "couple" /\ args.t + args.ad >= par.Tr - 1) => ~works_w(args.d)

\* a couple of different ages that worked as long as allowed: the older
\* spouse was forced out first, the younger one later, and the path has
\* passed the forced-retirement period of both
C22_witness ==
    /\ pc = "couple"
    /\ FromAllWorking
    /\ args.ad # 0
    /\ args.t >= par.Tr - 1
    /\ args.t + args.ad >= par.Tr - 1
    /\ \E i \in 2..Len(ret) : ret[i - 1] = 3 /\ ret[i] \in {1, 2}
    /\ \E i \in 2..Len(ret) : ret[i - 1] \in {1, 2} /\ ret[i] = 0
    /\ \A i \in 1..Len(ret) :
          (i - 1 < par.Tr - 1 /\ i - 1 + args.ad < par.Tr - 1) => ret[i] = 3

-----------------------------------------------------------------------------
(* Statements about the choice sets as functions *)

\* C23: d_plus is total: for every period t in 0..T-2 and every choice d in
\* {0, 1} it returns a choice set, [0] or [0, 1], also for a working
\* individual in a period after forced retirement (t+1 > Tr-1).
C23_d_plus_total ==
    (fn = "d_plus" /\ args.t <= par.T - 2) => ret \in {<<0>>, <<0, 1>>}

\* the only working spouse of the couple is forced to retire next period
OnlyWorkerForced ==
    \/ args.d = 1 /\ args.t + 1 + args.ad = par.Tr - 1
    \/ args.d = 2 /\ args.t + 1 = par.Tr - 1

\* C24: the choices d_plus_c returns are pairwise distinct; when the only
\* working spouse is forced to retire next period the result is the single
\* choice 'both retired', so that shocks_GH takes its branch without taste
\* shocks and not the 2-choice logsum.
C24_choices_distinct ==
    fn = "d_plus_c" =>
        /\ Cardinality(Range(ret)) = Len(ret)
        /\ OnlyWorkerForced =>
              ret = <<0>> /\ shocks_GH_branch(ret) = "no taste shocks"

\* C25: couple_index agrees with d_plus_c: for every t in 0..T-2, every age
\* difference and every joint choice, the index of a spouse is 1 exactly when
\* d_plus_c returns a joint choice in which that spouse works next period.
C25_couple_index_agrees ==
    (fn = "couple_index" /\ args.t <= par.T - 2) =>
        LET dp == Range(d_plus_c(args.t, args.ad, args.d, par))
        IN /\ ret[1] = 1 <=> \E d \in dp : works_h(d)
           /\ ret[2] = 1 <=> \E d \in dp : works_w(d)

-----------------------------------------------------------------------------
(* Statements about the quadrature in the post-decision step *)

\* the choice has no labour income next period: a retired single, or a
\* couple with both spouses retired
NoLaborIncome ==
    \/ fn = "compute" /\ args.d_h = 0
    \/ fn = "compute_c" /\ args.d_h = 0 /\ args.d_w = 0

\* C28: for each choice, the quadrature weights accumulated into the
\* expectation sum to 1; for a choice without labour income the quadrature is
\* exactly one node of weight 1 with a stochastic income of zero.
C28_weights_sum_to_one ==
    fn \in {"compute", "compute_c"} =>
        /\ ret.total = WeightOne
        /\ NoLaborIncome => (ret.w = <<WeightOne>> /\ ret.inc = <<0>>)

-----------------------------------------------------------------------------
(* Statements about the retirement-status bucket along a path *)

\* C30: for an eligible individual, with erp_age <= two_year <= oap_age, the
\* bucket that ra_look_up gives period after period never increases (2, then
\* 1, then 0), and from one period before the old-age-pension age onward,
\* t >= inv_age(oap_age) - 1, it is 0.
C30_bucket_never_increases ==
    (fn = "none" /\ Len(ret) = args.t + 1
       /\ state_translate(args.st, "elig", par) = 1) =>
        /\ \A i \in 1..Len(ret), j \in 1..Len(ret) : i < j => ret[j] <= ret[i]
        /\ \A i \in 1..Len(ret) :
              i - 1 >= inv_age(par.oap_age, par) - 1 => ret[i] = 0

\* an eligible individual who worked into the early-retirement window and
\* retired there with bucket 1, before the two-year-rule age, and has been
\* followed to the old-age-pension age: the buckets went 2, 1, 0
C30_witness ==
    /\ Len(ret) = args.t + 1
    /\ state_translate(args.st, "elig", par) = 1
    /\ par.erp_age < par.two_year
    /\ par.two_year < par.oap_age
    /\ args.t >= inv_age(par.oap_age, par)
    /\ args.d = 0
    /\ ret[1] = 2
    /\ \E i \in 2..Len(ret) : ret[i] = 1 /\ i - 1 < inv_age(par.oap_age, par) - 1
    /\ args.ra = 0

====
